---- MODULE Spec2Model ----
(***************************************************************************)
(* Model of the CPU JPEG encoder of uStreamer                              *)
(* (src/ustreamer/encoders/cpu/encoder.c): the pixel-format converters,    *)
(* the scanline feeders, the libjpeg destination manager (streaming sink)  *)
(* and the orchestration in us_cpu_encoder_compress.                       *)
(*                                                                         *)
(* Buffers are sequences of bytes; a C offset i is element i+1.            *)
(* A compressed byte is identified by its position in the output stream,   *)
(* so the destination frame is a sequence of stream ranges <<lo, hi>>.     *)
(***************************************************************************)
EXTENDS Integers, Sequences, FiniteSets, TLC

\* ------------------------------------------------------------------ bounds
MaxW == 4
MaxH == 3
MaxPad == 1
MaxEmits == 3

\* --------------------------------------------------------------- constants
JPEG_OUTPUT_BUFFER_SIZE == 4096

SupportedFormats == {"YUYV", "UYVY", "RGB565", "NV12", "NV16", "BGR24", "RGB24", "NV24"}
PackedYuvFormats == {"YUYV", "UYVY"}
SemiPlanarFormats == {"NV12", "NV16", "NV24"}
\* A format tag the switch of us_cpu_encoder_compress has no case for.
UnsupportedFormats == {"GREY"}
Formats == SupportedFormats \cup UnsupportedFormats

Byte == 0 .. 255

\* ------------------------------------------------------------- C arithmetic
\* x >> 8 on a signed int (arithmetic shift: rounds towards minus infinity).
Shr8(x) == x \div 256

\* Conversion of an int to uint8_t on store.
U8(x) == x % 256

\* j & ~1
ClearBit0(j) == j - (j % 2)

CeilHalf(n) == (n + 1) \div 2

\* -------------------------------------------------------------- pixel math
YUV_R(y, u, v) == Shr8(y + 359 * v)
YUV_G(y, u, v) == Shr8(y - 88 * u - 183 * v)
YUV_B(y, u, v) == Shr8(y + 454 * u)

NORM_COMPONENT_wrap(x) == x
NORM_COMPONENT(x) == IF x > 255 THEN 255 ELSE IF x < 0 THEN 0 ELSE x

\* The int locals r, g, b of the packed 4:2:2 converters for the bytes yb, ub, vb.
yuv422_rgb(yb, ub, vb) ==
    LET y == yb * 256
        u == ub - 128
        v == vb - 128
    IN  <<YUV_R(y, u, v), YUV_G(y, u, v), YUV_B(y, u, v)>>

\* The three bytes the packed 4:2:2 converters store through ptr.
yuv422_store(mid) ==
    <<U8(NORM_COMPONENT(mid[1])), U8(NORM_COMPONENT(mid[2])), U8(NORM_COMPONENT(mid[3]))>>

yuv422_pixel(yb, ub, vb) == yuv422_store(yuv422_rgb(yb, ub, vb))

\* The int locals R, G, B of the semi-planar converters before the clamp.
nv_rgb_nobias(yb, ub, vb) ==
    LET C == yb - 16
        D == ub
        E == vb
    IN  <<Shr8(298 * C + 409 * E + 128),
          Shr8(298 * C - 100 * D - 208 * E + 128),
          Shr8(298 * C + 516 * D + 128)>>
nv_rgb(yb, ub, vb) ==
    LET C == yb - 16
        D == ub - 128
        E == vb - 128
    IN  <<Shr8(298 * C + 409 * E + 128),
          Shr8(298 * C - 100 * D - 208 * E + 128),
          Shr8(298 * C + 516 * D + 128)>>

nv_clamp(x) == IF x < 0 THEN 0 ELSE IF x > 255 THEN 255 ELSE x

nv_store(mid) == <<U8(nv_clamp(mid[1])), U8(nv_clamp(mid[2])), U8(nv_clamp(mid[3]))>>

nv_pixel(yb, ub, vb) == nv_store(nv_rgb(yb, ub, vb))

\* One RGB565 pixel: data[0] = b0, data[1] = b1.
rgb565_pixel(b0, b1) ==
    LET two_byte == b1 * 256 + b0
    IN  <<U8((b1 \div 8) * 8),
          U8((((two_byte \div 32) % 64) * 32) \div 8),
          U8((b0 % 32) * 8)>>

\* ------------------------------------------------------------ source frames
\* data[i] of a buffer; a read outside the buffer (undefined behaviour) yields
\* the byte oob, which is drawn nondeterministically for each call.
Rd(buf, i, oob) == IF i >= 0 /\ i < Len(buf) THEN buf[i + 1] ELSE oob

\* Bytes of one logical row of the first plane of a format.
RowBytes(fmt, w) ==
    CASE fmt \in {"YUYV", "UYVY", "RGB565"} -> 2 * w
      [] fmt \in {"RGB24", "BGR24"} -> 3 * w
      [] OTHER -> w

\* Rows and bytes per row of the interleaved chroma plane of a semi-planar format
\* (no second plane for the other formats).
ChromaRows(fmt, h) ==
    CASE fmt = "NV12" -> CeilHalf(h)
      [] fmt \in {"NV16", "NV24"} -> h
      [] OTHER -> 0

ChromaRowBytes(fmt, w) ==
    CASE fmt \in {"NV12", "NV16"} -> 2 * CeilHalf(w)
      [] fmt = "NV24" -> 2 * w
      [] OTHER -> 0

\* The n-th byte (from 0) of the logical pixel data of test pattern pat. Pattern
\* "neutral" of a semi-planar format has every chroma sample equal to 128;
\* pattern "white" has every bit of every byte set.
Patterns == {"mixed", "neutral", "white"}

LogicalByte(fmt, w, h, pat, n) ==
    IF pat = "white" THEN 255
    ELSE IF pat = "neutral" /\ fmt \in SemiPlanarFormats /\ n >= w * h
    THEN 128
    ELSE ((IF pat = "neutral" THEN 202 ELSE 101) + n * 37 + (n \div 3) * 64) % 256

\* One plane of rows logical rows of len bytes, each followed by pad bytes of
\* padding holding fill; n0 is the logical index of the plane's first byte.
BuildPlane(fmt, w, h, pat, n0, rows, len, pad, fill) ==
    [i \in 1 .. rows * (len + pad) |->
        LET r == (i - 1) \div (len + pad)
            c == (i - 1) % (len + pad)
        IN  IF c < len THEN LogicalByte(fmt, w, h, pat, n0 + r * len + c) ELSE fill]

\* The raw buffer of a source frame: stride = RowBytes + padding.
BuildFrame(fmt, w, h, pad, pat, fill) ==
    BuildPlane(fmt, w, h, pat, 0, h, RowBytes(fmt, w), pad, fill)
    \o BuildPlane(fmt, w, h, pat, h * RowBytes(fmt, w),
                  ChromaRows(fmt, h), ChromaRowBytes(fmt, w), pad, fill)

PadFills == {255}
OobBytes == {0, 255}

\* ------------------------------------------------------------ row converters
\* One pass of the for loop of the packed 4:2:2 feeders over a row: order gives
\* the offsets of Y0, Y1, U, V in a 4-byte group. Returns the line, the advanced
\* read offset and the phase z.
RECURSIVE packed422_loop(_, _, _, _, _, _, _, _)
packed422_loop(data, off, zz, x, w, oob, order, acc) ==
    IF x >= w
    THEN [line |-> acc, off |-> off, z |-> zz]
    ELSE LET yb == IF zz = 0 THEN Rd(data, off + order[1], oob)
                   ELSE Rd(data, off + order[2], oob)
             ub == Rd(data, off + order[3], oob)
             vb == Rd(data, off + order[4], oob)
         IN  packed422_loop(data, IF zz # 0 THEN off + 4 ELSE off,
                            IF zz # 0 THEN 0 ELSE zz + 1,
                            x + 1, w, oob, order, acc \o yuv422_pixel(yb, ub, vb))

packed422_row_samey(data, off, zz, w, oob, order) ==
    packed422_loop(data, off, zz, 0, w, oob, <<order[1], order[1], order[3], order[4]>>, <<>>)
packed422_row(data, off, zz, w, oob, order) ==
    packed422_loop(data, off, zz, 0, w, oob, order, <<>>)

YuyvOrder == <<0, 2, 1, 3>>
UyvyOrder == <<1, 3, 0, 2>>

RECURSIVE rgb565_loop(_, _, _, _, _, _)
rgb565_loop(data, off, x, w, oob, acc) ==
    IF x >= w
    THEN [line |-> acc, off |-> off]
    ELSE rgb565_loop(data, off + 2, x + 1, w, oob,
                     acc \o rgb565_pixel(Rd(data, off, oob), Rd(data, off + 1, oob)))

rgb565_row(data, off, w, oob) == rgb565_loop(data, off, 0, w, oob, <<>>)

\* The swap loop of the BGR24 feeder: x runs over 0, 3, 6, ...
bgr24_row(data, off, w, oob) ==
    [k \in 1 .. 3 * w |->
        LET x == ((k - 1) \div 3) * 3
            c == (k - 1) % 3
        IN  Rd(data, off + x + (2 - c), oob)]

\* The width*3 samples libjpeg reads from a row pointer at offset off of buf.
RowAt(buf, off, w, oob) == [k \in 1 .. 3 * w |-> Rd(buf, off + k - 1, oob)]

\* -------------------------------------------------- semi-planar converters
_nv16_to_rgb24(in, w, h, oob) ==
    [k \in 1 .. w * h * 3 |->
        LET y_index == (k - 1) \div 3
            i == y_index \div w
            j == y_index % w
            uv_index == w * h + (i * w) + ClearBit0(j)
        IN  nv_pixel(Rd(in, y_index, oob), Rd(in, uv_index, oob),
                     Rd(in, uv_index + 1, oob))[((k - 1) % 3) + 1]]

_nv12_to_rgb24(in, w, h, oob) ==
    [k \in 1 .. w * h * 3 |->
        LET p == (k - 1) \div 3
            i == p \div w
            j == p % w
            uv_offset == w * h
            uv_index == (i \div 2) * w + 2 * (j \div 2)
        IN  nv_pixel(Rd(in, i * w + j, oob), Rd(in, uv_offset + uv_index, oob),
                     Rd(in, uv_offset + uv_index + 1, oob))[((k - 1) % 3) + 1]]

_nv24_to_rgb24(in, w, h, oob) ==
    [k \in 1 .. w * h * 3 |->
        LET y_index == (k - 1) \div 3
            i == y_index \div w
            j == y_index % w
            uv_index == w * h + (2 * j) + (i * w * 2)
        IN  nv_pixel(Rd(in, y_index, oob), Rd(in, uv_index, oob),
                     Rd(in, uv_index + 1, oob))[((k - 1) % 3) + 1]]

NvToRgb24(fmt, in, w, h, oob) ==
    CASE fmt = "NV12" -> _nv12_to_rgb24(in, w, h, oob)
      [] fmt = "NV16" -> _nv16_to_rgb24(in, w, h, oob)
      [] fmt = "NV24" -> _nv24_to_rgb24(in, w, h, oob)
      [] OTHER -> <<>>

\* -------------------------------------------------------------------- state
VARIABLES
    pc,               \* position of us_cpu_encoder_compress
    reused,           \* the destination frame holds the stream of an earlier call
    src_format, src_width, src_height, src_padding, src_data,
    src_pat,          \* which logical pixel data src_data was built from
    oob,              \* what a read outside a buffer yields during this call
    dest_format, dest_used,
    dest_data,        \* the appended stream ranges <<lo, hi>>, in order
    jpeg_dest,        \* jpeg->dest: "NULL" or "frame"
    next_scanline,    \* jpeg->next_scanline
    next_output_byte, \* dest->mgr.next_output_byte - dest->buf
    free_in_buffer,   \* dest->mgr.free_in_buffer
    buf_base,         \* stream position of the byte at dest->buf[0]
    emitted,          \* bytes the compressor has written so far in this call
    nemits,           \* number of compressor writes so far in this call
    term_called,      \* _jpeg_term_destination has run in this call
    data,             \* the feeder's read pointer, as an offset into its buffer
    z,                \* the pixel phase of the packed 4:2:2 feeders
    rgb,              \* the full-frame RGB buffer of the semi-planar feeders
    handed,           \* the rows handed to jpeg_write_scanlines, in order
    handed_at,        \* the value of data at each of those calls
    px_op, px_in, px_mid, px_out   \* a single pixel conversion

frame_vars == <<src_format, src_width, src_height, src_padding, src_data, src_pat, oob>>
dest_vars == <<dest_format, dest_used, dest_data>>
sink_vars == <<jpeg_dest, next_output_byte, free_in_buffer, buf_base, emitted, nemits,
               term_called>>
feed_vars == <<next_scanline, data, z, rgb, handed, handed_at>>
px_vars == <<px_op, px_in, px_mid, px_out>>
vars == <<pc, reused, frame_vars, dest_vars, sink_vars, feed_vars, px_vars>>

Min(a, b) == IF a < b THEN a ELSE b

\* ----------------------------------------------------------- streaming sink
\* us_frame_append_data(frame, dest->buf, size): copies buf[0 .. size) to the end
\* of the frame's data and adds size to frame->used.
us_frame_append_data(size) ==
    /\ dest_data' = IF size > 0 THEN Append(dest_data, <<buf_base, buf_base + size>>)
                    ELSE dest_data
    /\ dest_used' = dest_used + size

\* The size _jpeg_term_destination appends.
term_final_whole == JPEG_OUTPUT_BUFFER_SIZE
term_final == JPEG_OUTPUT_BUFFER_SIZE - free_in_buffer

\* The size _jpeg_empty_output_buffer appends.
flush_size == JPEG_OUTPUT_BUFFER_SIZE

\* Called by libjpeg whenever the chunk buffer is completely full.
_jpeg_empty_output_buffer ==
    /\ pc \in {"feed", "finish"}
    /\ free_in_buffer = 0
    /\ us_frame_append_data(flush_size)
    /\ next_output_byte' = 0
    /\ free_in_buffer' = JPEG_OUTPUT_BUFFER_SIZE
    /\ buf_base' = emitted
    /\ UNCHANGED <<pc, reused, frame_vars, dest_format, jpeg_dest, emitted, nemits,
                   term_called, feed_vars, px_vars>>

\* Called by jpeg_finish_compress after all data has been written; the rest of
\* us_cpu_encoder_compress (jpeg_destroy_compress, us_frame_encoding_end) follows.
_jpeg_term_destination ==
    /\ pc = "finish"
    /\ free_in_buffer > 0
    /\ us_frame_append_data(term_final)
    /\ term_called' = TRUE
    /\ pc' = "returned"
    /\ UNCHANGED <<reused, frame_vars, dest_format, jpeg_dest, next_output_byte,
                   free_in_buffer, buf_base, emitted, nemits, feed_vars, px_vars>>

\* The compressor writes n more bytes through next_output_byte: while a row is
\* being consumed in jpeg_write_scanlines or in jpeg_finish_compress.
EmitSizes == {1, JPEG_OUTPUT_BUFFER_SIZE - 1, JPEG_OUTPUT_BUFFER_SIZE}

jpeg_emit ==
    /\ \/ pc = "feed" /\ next_scanline > 0
       \/ pc = "finish"
    /\ free_in_buffer > 0
    /\ nemits < MaxEmits
    /\ \E s \in EmitSizes :
         LET n == Min(s, free_in_buffer)
         IN  /\ next_output_byte' = next_output_byte + n
             /\ free_in_buffer' = free_in_buffer - n
             /\ emitted' = emitted + n
    /\ nemits' = nemits + 1
    /\ UNCHANGED <<pc, reused, frame_vars, dest_vars, jpeg_dest, buf_base, term_called,
                   feed_vars, px_vars>>

\* ------------------------------------------------------------ frame encoder
\* Bytes jpeg_start_compress writes at once (the SOI and JFIF markers of the
\* file header); the frame and scan headers follow with the first row.
FileHeaderSizes == {20}

\* _jpeg_set_dest_frame on the fresh compressor: registers the three callbacks
\* and the frame, and resets the frame's used length.
_jpeg_set_dest_frame_keep ==
    /\ jpeg_dest' = "frame"
    /\ dest_used' = dest_used
    /\ dest_data' = dest_data
_jpeg_set_dest_frame ==
    /\ jpeg_dest' = "frame"
    /\ dest_used' = 0
    /\ dest_data' = <<>>

\* _jpeg_init_destination, called by jpeg_start_compress, followed by the
\* n bytes of file header that jpeg_start_compress writes.
_jpeg_init_destination(n) ==
    /\ next_output_byte' = n
    /\ free_in_buffer' = JPEG_OUTPUT_BUFFER_SIZE - n
    /\ buf_base' = 0
    /\ emitted' = n

\* us_cpu_encoder_compress up to and including jpeg_start_compress.
compress_begin ==
    /\ pc = "idle"
    /\ \E fmt \in Formats, w \in 1 .. MaxW, h \in 1 .. MaxH, pad \in 0 .. MaxPad,
          pat \in Patterns, fill \in PadFills, o \in OobBytes :
         /\ src_format' = fmt
         /\ src_width' = w
         /\ src_height' = h
         /\ src_padding' = pad
         /\ src_pat' = pat
         /\ src_data' = BuildFrame(fmt, w, h, pad, pat, fill)
         /\ oob' = o
    /\ dest_format' = "JPEG"
    /\ _jpeg_set_dest_frame
    /\ \E n \in FileHeaderSizes : _jpeg_init_destination(n)
    /\ nemits' = 0
    /\ term_called' = FALSE
    /\ next_scanline' = 0
    /\ data' = 0
    /\ z' = 0
    /\ rgb' = <<>>
    /\ handed' = <<>>
    /\ handed_at' = <<>>
    /\ pc' = "dispatch"
    /\ UNCHANGED <<reused, px_vars>>

\* The switch on src->format: entry into the matching feeder (its allocations
\* and, for the semi-planar formats, the whole-frame conversion), or the
\* assertion of the default case.
dispatch_target_nodefault(fmt) == "feed"
dispatch_target(fmt) == IF fmt \in SupportedFormats THEN "feed" ELSE "fatal"

compress_dispatch ==
    /\ pc = "dispatch"
    /\ pc' = dispatch_target(src_format)
    /\ rgb' = IF src_format \in SemiPlanarFormats
              THEN NvToRgb24(src_format, src_data, src_width, src_height, oob)
              ELSE <<>>
    /\ data' = 0
    /\ z' = 0
    /\ UNCHANGED <<reused, frame_vars, dest_vars, sink_vars, next_scanline, handed,
                   handed_at, px_vars>>

\* The loop condition of every feeder; a full chunk buffer is flushed inside
\* jpeg_write_scanlines before it returns.
FeedStep(fmt) ==
    /\ pc = "feed"
    /\ src_format = fmt
    /\ next_scanline < src_height
    /\ free_in_buffer > 0

\* jpeg_write_scanlines(jpeg, scanlines, 1) with scanlines[0] = line.
jpeg_write_scanlines(line) ==
    /\ handed' = Append(handed, line)
    /\ handed_at' = Append(handed_at, data)
    /\ next_scanline' = next_scanline + 1

\* The advance of the row pointer of the feeders that step by whole rows.
row_advance(w, padding) == (w * 3) + padding

\* One iteration of the while loop of each feeder, from read offset off and
\* phase zz: the row handed to jpeg_write_scanlines and the values of data and z
\* after the iteration.
iter_yuyv(buf, off, zz, w, padding, o) ==
    LET r == packed422_row(buf, off, zz, w, o, YuyvOrder)
    IN  [line |-> r.line, data |-> r.off + padding, z |-> r.z]

iter_uyvy(buf, off, zz, w, padding, o) ==
    LET r == packed422_row(buf, off, zz, w, o, UyvyOrder)
    IN  [line |-> r.line, data |-> r.off + padding, z |-> r.z]

iter_rgb565(buf, off, zz, w, padding, o) ==
    LET r == rgb565_row(buf, off, w, o)
    IN  [line |-> r.line, data |-> r.off + padding, z |-> zz]

iter_bgr24(buf, off, zz, w, padding, o) ==
    [line |-> bgr24_row(buf, off, w, o), data |-> off + row_advance(w, padding), z |-> zz]

iter_rgb24(buf, off, zz, w, padding, o) ==
    [line |-> RowAt(buf, off, w, o), data |-> off + row_advance(w, padding), z |-> zz]

\* The three semi-planar feeders share one loop body; buf is their rgb buffer.
iter_nv(buf, off, zz, w, padding, o) ==
    [line |-> RowAt(buf, off, w, o), data |-> off + row_advance(w, padding), z |-> zz]

FeedIter(r) ==
    /\ jpeg_write_scanlines(r.line)
    /\ data' = r.data
    /\ z' = r.z
    /\ UNCHANGED <<pc, reused, frame_vars, dest_vars, sink_vars, rgb, px_vars>>

_jpeg_write_scanlines_yuyv ==
    /\ FeedStep("YUYV")
    /\ FeedIter(iter_yuyv(src_data, data, z, src_width, src_padding, oob))

_jpeg_write_scanlines_uyvy ==
    /\ FeedStep("UYVY")
    /\ FeedIter(iter_uyvy(src_data, data, z, src_width, src_padding, oob))

_jpeg_write_scanlines_rgb565 ==
    /\ FeedStep("RGB565")
    /\ FeedIter(iter_rgb565(src_data, data, z, src_width, src_padding, oob))

_jpeg_write_scanlines_bgr24 ==
    /\ FeedStep("BGR24")
    /\ FeedIter(iter_bgr24(src_data, data, z, src_width, src_padding, oob))

_jpeg_write_scanlines_rgb24 ==
    /\ FeedStep("RGB24")
    /\ FeedIter(iter_rgb24(src_data, data, z, src_width, src_padding, oob))

_jpeg_write_scanlines_nv12 ==
    /\ FeedStep("NV12")
    /\ FeedIter(iter_nv(rgb, data, z, src_width, src_padding, oob))

_jpeg_write_scanlines_nv16 ==
    /\ FeedStep("NV16")
    /\ FeedIter(iter_nv(rgb, data, z, src_width, src_padding, oob))

_jpeg_write_scanlines_nv24 ==
    /\ FeedStep("NV24")
    /\ FeedIter(iter_nv(rgb, data, z, src_width, src_padding, oob))

\* The iteration of the feeder the switch selects for fmt; buf is the buffer
\* that feeder reads (the rgb buffer for the semi-planar formats).
feeder_iter(fmt, buf, off, zz, w, padding, o) ==
    CASE fmt = "YUYV" -> iter_yuyv(buf, off, zz, w, padding, o)
      [] fmt = "UYVY" -> iter_uyvy(buf, off, zz, w, padding, o)
      [] fmt = "RGB565" -> iter_rgb565(buf, off, zz, w, padding, o)
      [] fmt = "BGR24" -> iter_bgr24(buf, off, zz, w, padding, o)
      [] fmt = "RGB24" -> iter_rgb24(buf, off, zz, w, padding, o)
      [] OTHER -> iter_nv(buf, off, zz, w, padding, o)

\* The whole run of a feeder: every row it hands over for a frame of h rows.
RECURSIVE feeder_rows(_, _, _, _, _, _, _, _, _, _)
feeder_rows(fmt, buf, off, zz, w, h, padding, o, k, acc) ==
    IF ~(k < h)
    THEN acc
    ELSE LET r == feeder_iter(fmt, buf, off, zz, w, padding, o)
         IN  feeder_rows(fmt, buf, r.data, r.z, w, h, padding, o, k + 1,
                         Append(acc, r.line))

\* The rows us_cpu_encoder_compress hands to the compressor for a whole frame.
Scanlines(fmt, w, h, padding, buf, o) ==
    feeder_rows(fmt,
                IF fmt \in SemiPlanarFormats THEN NvToRgb24(fmt, buf, w, h, o) ELSE buf,
                0, 0, w, h, padding, o, 0, <<>>)

\* The feeder's loop ends, it frees its buffer and jpeg_finish_compress starts.
compress_finish ==
    /\ pc = "feed"
    /\ ~(next_scanline < src_height)
    /\ free_in_buffer > 0
    /\ pc' = "finish"
    /\ rgb' = <<>>
    /\ UNCHANGED <<reused, frame_vars, dest_vars, sink_vars, next_scanline, data, z,
                   handed, handed_at, px_vars>>

\* The state of the compressor and of the feeder between two calls: the
\* compressor and the working buffers live within one call.
NoCall ==
    /\ src_format = "NONE"
    /\ src_width = 0
    /\ src_height = 0
    /\ src_padding = 0
    /\ src_data = <<>>
    /\ src_pat = "mixed"
    /\ oob = 0
    /\ jpeg_dest = "NULL"
    /\ next_scanline = 0
    /\ next_output_byte = 0
    /\ free_in_buffer = 0
    /\ buf_base = 0
    /\ emitted = 0
    /\ nemits = 0
    /\ term_called = FALSE
    /\ data = 0
    /\ z = 0
    /\ rgb = <<>>
    /\ handed = <<>>
    /\ handed_at = <<>>

\* The same, as the effect of leaving the call.
LeaveCall ==
    /\ src_format' = "NONE"
    /\ src_width' = 0
    /\ src_height' = 0
    /\ src_padding' = 0
    /\ src_data' = <<>>
    /\ src_pat' = "mixed"
    /\ oob' = 0
    /\ jpeg_dest' = "NULL"
    /\ next_scanline' = 0
    /\ next_output_byte' = 0
    /\ free_in_buffer' = 0
    /\ buf_base' = 0
    /\ emitted' = 0
    /\ nemits' = 0
    /\ term_called' = FALSE
    /\ data' = 0
    /\ z' = 0
    /\ rgb' = <<>>
    /\ handed' = <<>>
    /\ handed_at' = <<>>

\* us_cpu_encoder_compress returns; the caller may reuse the destination frame.
compress_return ==
    /\ pc = "returned"
    /\ pc' = "idle"
    /\ reused' = TRUE
    /\ LeaveCall
    /\ UNCHANGED <<dest_vars, px_vars>>

PxIdle ==
    /\ px_op = "none"
    /\ px_in = <<0, 0, 0>>
    /\ px_mid = <<0, 0, 0>>
    /\ px_out = <<0, 0, 0>>

Init ==
    /\ pc = "idle"
    /\ reused = FALSE
    /\ dest_format = "NONE"
    /\ dest_used = 0
    /\ dest_data = <<>>
    /\ NoCall
    /\ PxIdle

Next ==
    \/ compress_begin
    \/ compress_dispatch
    \/ _jpeg_write_scanlines_yuyv
    \/ _jpeg_write_scanlines_uyvy
    \/ _jpeg_write_scanlines_rgb565
    \/ _jpeg_write_scanlines_bgr24
    \/ _jpeg_write_scanlines_rgb24
    \/ _jpeg_write_scanlines_nv12
    \/ _jpeg_write_scanlines_nv16
    \/ _jpeg_write_scanlines_nv24
    \/ jpeg_emit
    \/ _jpeg_empty_output_buffer
    \/ compress_finish
    \/ _jpeg_term_destination
    \/ compress_return

Spec == Init /\ [][Next]_vars

\* ------------------------------------------------- single pixel conversions
\* The per-pixel arithmetic of the converters on its own, over every luma byte
\* and a grid of chroma bytes that covers both ends of every channel's range.
ChromaSamples == {16 * k : k \in 0 .. 15} \cup {1, 127, 129, 254, 255}

PixelInit ==
    /\ pc = "idle"
    /\ reused = FALSE
    /\ dest_format = "NONE"
    /\ dest_used = 0
    /\ dest_data = <<>>
    /\ NoCall
    /\ px_op = "none"
    /\ px_in \in Byte \X ChromaSamples \X ChromaSamples
    /\ px_mid = <<0, 0, 0>>
    /\ px_out = <<0, 0, 0>>

NonPixelVars == <<pc, reused, frame_vars, dest_vars, sink_vars, feed_vars>>

\* Lines 138-148 (YUYV) and 176-186 (UYVY) for one pixel with luma px_in[1] and
\* chroma U = px_in[2], V = px_in[3].
pixel_yuv422 ==
    /\ px_op = "none"
    /\ px_op' = "yuv422"
    /\ px_mid' = yuv422_rgb(px_in[1], px_in[2], px_in[3])
    /\ px_out' = yuv422_pixel(px_in[1], px_in[2], px_in[3])
    /\ UNCHANGED <<px_in, NonPixelVars>>

\* The body of the inner loop of _nv12_to_rgb24, _nv16_to_rgb24, _nv24_to_rgb24.
pixel_nv ==
    /\ px_op = "none"
    /\ px_op' = "nv"
    /\ px_mid' = nv_rgb(px_in[1], px_in[2], px_in[3])
    /\ px_out' = nv_pixel(px_in[1], px_in[2], px_in[3])
    /\ UNCHANGED <<px_in, NonPixelVars>>

\* Lines 363-367 for one pixel with data[0] = px_in[1] and data[1] = px_in[2].
pixel_rgb565 ==
    /\ px_op = "none"
    /\ px_op' = "rgb565"
    /\ px_mid' = px_mid
    /\ px_out' = rgb565_pixel(px_in[1], px_in[2])
    /\ UNCHANGED <<px_in, NonPixelVars>>

PixelNext == pixel_yuv422 \/ pixel_nv \/ pixel_rgb565

PixelSpec == PixelInit /\ [][PixelNext]_vars

\* =================================================================== claims

InCall == pc \in {"feed", "finish", "returned"}

Clamped(x) == IF x < 0 THEN 0 ELSE IF x > 255 THEN 255 ELSE x

\* C4: for every byte triple (Y, U, V), each channel the packed 4:2:2 converters
\* (359/88/183/454, shift 8) and the semi-planar converters (298/409/100/208/516,
\* Y-16, +128, shift 8) store is the intermediate integer clamped to [0,255]:
\* below 0 gives 0, above 255 gives 255, nothing wraps modulo 256.
C4_ClampNeverWraps ==
    LET Y == px_in[1]
        U == px_in[2] - 128
        V == px_in[3] - 128
        packed == <<(256 * Y + 359 * V) \div 256,
                    (256 * Y - 88 * U - 183 * V) \div 256,
                    (256 * Y + 454 * U) \div 256>>
        planar == <<(298 * (Y - 16) + 409 * V + 128) \div 256,
                    (298 * (Y - 16) - 100 * U - 208 * V + 128) \div 256,
                    (298 * (Y - 16) + 516 * U + 128) \div 256>>
    IN  /\ px_op = "yuv422" => \A c \in 1 .. 3 : px_out[c] = Clamped(packed[c])
        /\ px_op = "nv" => \A c \in 1 .. 3 : px_out[c] = Clamped(planar[c])

\* A packed 4:2:2 pixel whose red is below 0 and whose blue is above 255.
C4_Witness ==
    /\ px_op = "yuv422"
    /\ px_in = <<100, 255, 0>>
    /\ px_mid[1] < 0 /\ px_out[1] = 0
    /\ px_mid[3] > 255 /\ px_out[3] = 255

\* C5: an RGB565 pixel with all 16 bits set (both bytes 0xFF) is (255,255,255)
\* in the scanline handed to the compressor.
C5_WhiteIsFullWhite ==
    (InCall /\ src_format = "RGB565" /\ src_pat = "white") =>
        \A r \in 1 .. Len(handed) : \A k \in 1 .. Len(handed[r]) : handed[r][k] = 255

\* ---------------------------------------------------------------- the sink

RangeLen(seg) == seg[2] - seg[1]

RECURSIVE SumLens(_)
SumLens(segs) == IF segs = <<>> THEN 0 ELSE RangeLen(Head(segs)) + SumLens(Tail(segs))

\* The ranges are exactly the stream positions 0 .. total-1, in order, each once.
ExactlyTheStream(segs, total) ==
    /\ segs = <<>> => total = 0
    /\ segs # <<>> => segs[1][1] = 0 /\ segs[Len(segs)][2] = total
    /\ \A i \in 1 .. Len(segs) : segs[i][1] < segs[i][2]
    /\ \A i \in 1 .. Len(segs) - 1 : segs[i][2] = segs[i + 1][1]

\* C1: whatever the compressor wrote (flush-when-full at every full chunk,
\* finalize once at the end), after finalize the destination frame holds exactly
\* the emitted bytes, in order, each once: 4096 per flush plus 4096 minus the free
\* space at finalize is the stream length, and so is the used length.
C1_SinkHoldsExactlyTheStream ==
    pc = "returned" =>
        /\ dest_used = emitted
        /\ ExactlyTheStream(dest_data, emitted)
        /\ SumLens(dest_data) = emitted
        /\ \A i \in 1 .. Len(dest_data) - 1 : RangeLen(dest_data[i]) = 4096
        /\ \E flushes \in 0 .. MaxEmits :
             /\ flushes * 4096 + (4096 - free_in_buffer) = emitted
             /\ Len(dest_data) = flushes + (IF free_in_buffer < 4096 THEN 1 ELSE 0)

\* Two full chunks were flushed and finalize appended a partial one.
C1_Witness ==
    /\ pc = "returned"
    /\ Len(dest_data) = 3
    /\ dest_used = 2 * 4096 + 1
    /\ free_in_buffer = 4095

\* C2: the used length of a reused destination frame is reset to zero at the
\* start of each call, before any compressed byte is appended, and within a call
\* it never decreases from one step to the next.
C2_UsedResetThenMonotonic ==
    /\ []((pc # "idle" /\ dest_data = <<>>) => dest_used = 0)
    /\ []((pc = "idle" /\ reused) => dest_used > 0)
    /\ [][/\ pc = "idle" => (dest_used' = 0 /\ dest_data' = <<>>)
          /\ pc # "idle" => dest_used' >= dest_used]_vars

\* A later call on the same frame, which held a stream, has reset it and then
\* grown it by one flushed chunk.
C2_Witness ==
    /\ reused
    /\ pc = "feed"
    /\ dest_used = 4096
    /\ Len(dest_data) = 1

\* ------------------------------------------------------------ the dispatch

\* C7: with a source format outside the eight, the call ends in a fatal state at
\* the dispatch: no scanline is handed over, compression is never finished,
\* finalize never runs and the destination frame keeps used length zero.
C7_UnsupportedFormatIsFatal ==
    /\ (pc # "idle" /\ src_format \notin SupportedFormats) =>
          /\ pc \in {"dispatch", "fatal"}
          /\ handed = <<>>
          /\ next_scanline = 0
          /\ ~term_called
          /\ dest_used = 0
          /\ dest_data = <<>>
    /\ pc = "fatal" => (src_format \notin SupportedFormats /\ ~ENABLED Next)

\* The call has stopped at the dispatch on a format without a case, with the
\* file header still in the chunk buffer.
C7_Witness ==
    /\ pc = "fatal"
    /\ src_format = "GREY"
    /\ emitted > 0
    /\ dest_used = 0

\* ------------------------------------------------------------- the feeders

IsEven(n) == n % 2 = 0

\* Frames whose size the subsampled layouts represent exactly: an even width
\* where two pixels share a chroma pair, an even height where two rows do.
WholeGroups ==
    /\ src_format \in PackedYuvFormats \cup {"NV12", "NV16"} => IsEven(src_width)
    /\ src_format = "NV12" => IsEven(src_height)

IsPrefix(a, b) == Len(a) <= Len(b) /\ a = SubSeq(b, 1, Len(a))

\* C3: two source frames with the same format, size and logical pixel data but
\* different padding hand the same RGB scanlines to the compressor. The frame of
\* the call is compared with the frame of the same pixel data and no padding,
\* over the frames of whole chroma groups.
C3_PaddingNeverReachesOutput ==
    (InCall /\ src_format \in SupportedFormats /\ WholeGroups) =>
        IsPrefix(handed,
                 Scanlines(src_format, src_width, src_height, 0,
                           BuildFrame(src_format, src_width, src_height, 0, src_pat, 0),
                           oob))

\* Row k (from 0) of the output as the conversion of source row k.
ConvertedRow(k) ==
    IF src_format \in SemiPlanarFormats
    THEN SubSeq(NvToRgb24(src_format, src_data, src_width, src_height, oob),
                k * src_width * 3 + 1, (k + 1) * src_width * 3)
    ELSE feeder_iter(src_format, src_data,
                     k * (RowBytes(src_format, src_width) + src_padding), 0,
                     src_width, src_padding, oob).line

\* C8: for every supported format and height, before compression is finished the
\* compressor has been handed exactly h rows, one per call, row k derived from
\* source row k; finish and finalize come only after the last row. Stated over
\* the frames of whole chroma groups.
C8_RowsInSourceOrder ==
    (pc # "idle" /\ src_format \in SupportedFormats /\ WholeGroups) =>
        /\ Len(handed) = next_scanline
        /\ next_scanline <= src_height
        /\ pc \in {"finish", "returned"} => Len(handed) = src_height
        /\ term_called => pc = "returned"
        /\ \A k \in 1 .. Len(handed) : handed[k] = ConvertedRow(k - 1)

\* C9: for the semi-planar formats, for every width, height and padding, the k-th
\* row handed over is bytes [k*width*3, (k+1)*width*3) of the full-frame RGB
\* buffer of width*height*3 bytes, and no handed byte lies outside that buffer.
\* Stated over the frames of whole chroma groups.
C9_RowsInsideRgbBuffer ==
    (pc = "feed" /\ src_format \in SemiPlanarFormats /\ WholeGroups) =>
        /\ Len(rgb) = src_width * src_height * 3
        /\ \A k \in 1 .. Len(handed) :
             /\ handed_at[k] = (k - 1) * src_width * 3
             /\ handed_at[k] + src_width * 3 <= Len(rgb)
             /\ handed[k] = SubSeq(rgb, (k - 1) * src_width * 3 + 1, k * src_width * 3)

\* The packed 4:2:2 pixel (r, x) as the claim states it: the x-th luma sample of
\* row r and the U and V bytes of group x/2 of that row, rows being
\* 2*width + padding bytes apart.
PackedPixel(r, x) ==
    LET group == r * (2 * src_width + src_padding) + 4 * (x \div 2)
        lumaAt == IF src_format = "YUYV" THEN 2 * (x % 2) ELSE 2 * (x % 2) + 1
        uAt == IF src_format = "YUYV" THEN 1 ELSE 0
        vAt == IF src_format = "YUYV" THEN 3 ELSE 2
        Y == Rd(src_data, group + lumaAt, oob)
        U == Rd(src_data, group + uAt, oob) - 128
        V == Rd(src_data, group + vAt, oob) - 128
    IN  <<Clamped((256 * Y + 359 * V) \div 256),
          Clamped((256 * Y - 88 * U - 183 * V) \div 256),
          Clamped((256 * Y + 454 * U) \div 256)>>

PackedRowsAsStated ==
    (InCall /\ src_format \in PackedYuvFormats) =>
        /\ \A r \in 1 .. Len(handed) :
             /\ handed_at[r] = (r - 1) * (2 * src_width + src_padding)
             /\ Len(handed[r]) = 3 * src_width
             /\ \A x \in 0 .. src_width - 1 :
                  SubSeq(handed[r], 3 * x + 1, 3 * x + 3) = PackedPixel(r - 1, x)
        /\ (pc = "feed" /\ next_scanline < src_height) =>
             /\ z = 0
             /\ data = next_scanline * (2 * src_width + src_padding)

\* C10 as stated: for a frame of any width, pixel (r, x) of the packed 4:2:2
\* converters comes from the x-th luma sample and the chroma of group x/2 of row
\* r, the phase restarts with each row and row r is read from r*(2*width+padding).
C10_AnyWidth == PackedRowsAsStated

\* C10 amended: the same for every frame of even width.
C10_EvenWidth == IsEven(src_width) => PackedRowsAsStated

\* The second row of a padded UYVY frame of two groups per row has been handed.
C10_Witness ==
    /\ pc = "feed"
    /\ src_format = "UYVY"
    /\ src_width = 4
    /\ src_padding = 1
    /\ src_pat = "mixed"
    /\ Len(handed) = 2
    /\ handed_at[2] = 9
    /\ handed[1] # handed[2]

\* ------------------------------------------------- the semi-planar converters

Gray(Y) == Clamped((298 * (Y - 16) + 128) \div 256)

\* The input of a semi-planar converter with the luma plane of the frame of the
\* call and neutral chroma throughout.
NeutralInput(fmt) ==
    SubSeq(src_data, 1, src_width * src_height)
    \o [k \in 1 .. ChromaRows(fmt, src_height) * ChromaRowBytes(fmt, src_width) |-> 128]

\* C6: with every chroma sample U = V = 128, every pixel of the 4:2:0, 4:2:2 and
\* 4:4:4 converters has R = G = B, a value that depends on its own Y only, and
\* the three converters give the same raster for the same luma plane and size.
C6_NeutralChromaIsGray ==
    (/\ pc = "feed"
     /\ src_format \in SemiPlanarFormats
     /\ \A k \in src_width * src_height + 1 .. Len(src_data) : src_data[k] = 128) =>
        /\ Len(rgb) = src_width * src_height * 3
        /\ \A p \in 0 .. src_width * src_height - 1 :
             /\ rgb[3 * p + 1] = Gray(src_data[p + 1])
             /\ rgb[3 * p + 2] = Gray(src_data[p + 1])
             /\ rgb[3 * p + 3] = Gray(src_data[p + 1])
        /\ \A f \in SemiPlanarFormats :
             NvToRgb24(f, NeutralInput(f), src_width, src_height, oob) = rgb

\* A 4:2:0 frame of neutral chroma with two different gray levels in its raster.
C6_Witness ==
    /\ pc = "feed"
    /\ src_format = "NV12"
    /\ src_pat = "neutral"
    /\ src_padding = 0
    /\ src_width = 3
    /\ src_height = 3
    /\ rgb[1] = rgb[2] /\ rgb[2] = rgb[3]
    /\ rgb[1] # rgb[4]

====
